---- MODULE Spec2Model ----
(***************************************************************************)
(* A model of alpha_fold_query.py (get_with_retries, parse_plddt_from_cif, *)
(* query_alphafold, query_alphafold_bulk) and of run_alpha_fold_query.py   *)
(* (main).  The network is the environment: every requests.get draws its   *)
(* outcome (a response, or a transport fault) nondeterministically.        *)
(***************************************************************************)
EXTENDS Integers, Sequences, FiniteSets, TLC

\* ---------------------------------------------------------------- bounds
MaxInput == 2      \* longest list of input accessions given to main
MaxRuns == 2       \* runs of main in one behaviour
MaxSeqLen == 1     \* longest residue sequence a payload carries
MaxCifLines == 1   \* most lines of a structure file served to main
MaxRetries == 2    \* largest `retries` of a direct call of get_with_retries
MaxParseLines == 3 \* most lines of a text given to parse_plddt_from_cif directly

\* ------------------------------------------------------ program constants
HTTP_OK == 200
NO_STATUS == -1
NO_RESIDUE == -1
DEFAULT_TIMEOUT == 10
DEFAULT_RETRIES == 2
DEFAULT_BACKOFF == 5
META_BACKOFF == 5
RESIDUE_COL == 8
PLDDT_COL == 14

\* ------------------------------------------------------- optional values
\* Python's None / a present value.
None == <<>>
Some(v) == <<v>>
IsNone(o) == o = <<>>
Val(o) == o[1]

SeqsUpTo(S, n) == UNION {[1..k -> S] : k \in 0..n}
Range(s) == {s[k] : k \in 1..Len(s)}

RECURSIVE Perms(_)
\* every order in which list(a_set) may enumerate the set
Perms(S) ==
  IF S = {} THEN {<<>>}
  ELSE UNION {{<<x>> \o p : p \in Perms(S \ {x})} : x \in S}

\* ----------------------------------------------------------- environment
Accessions == {"A", "B"}
Statuses == {HTTP_OK, 404, 500}
Residues == {"M"}
ResidueSequences == SeqsUpTo(Residues, MaxSeqLen)

PredictionUrl(accession) == <<"prediction", accession>>
CifUrlOf(accession) == <<"cif", accession>>

\* A line of a structure file, as the list of its whitespace-separated
\* tokens (what l.split() returns).  plddt tokens are decimal numbers.
AtomLine(res, pl) ==
  <<"ATOM", "1", "N", "N", ".", "MET", "A", "1", res, "?",
    "1.0", "2.0", "3.0", "1.00", pl, "?", "1", "A">>
ShortAtomLine == <<"ATOM", "1", "N">>
OtherLine == <<"HETATM", "1", "O", "O", ".", "HOH", "B", "1", "0", "?",
               "1.0", "2.0", "3.0", "1.00", "150.0", "?", "1", "B">>
EmptyLine == <<>>

\* int(token) and float(token): the numerals the model serves.  A float is
\* kept in tenths (50.0 is 500), so that 100.1 is representable.
IntTokens == {"-1", "0", "1", "2", "3"}
IntOf(tok) ==
  CASE tok = "-1" -> -1 [] tok = "0" -> 0 [] tok = "1" -> 1
    [] tok = "2" -> 2 [] tok = "3" -> 3
\* float("nan") is a float too: NAN stands for it, and every comparison
\* with it is false (FloatLt).
NAN == 999999
FloatTokens ==
  {"-0.1", "0.0", "50.0", "70.5", "100.0", "100.1", "150.0", "nan"}
FloatOf(tok) ==
  CASE tok = "-0.1" -> -1 [] tok = "0.0" -> 0 [] tok = "50.0" -> 500
    [] tok = "70.5" -> 705 [] tok = "100.0" -> 1000 [] tok = "100.1" -> 1001
    [] tok = "150.0" -> 1500 [] tok = "nan" -> NAN
FloatLt(x, y) == x # NAN /\ y # NAN /\ x < y
PLDDT_MIN == 0
PLDDT_MAX == 1000

\* The structure files served to a run of main.
MainCifLines ==
  {AtomLine("1", "50.0"), AtomLine("2", "70.5"), AtomLine("0", "50.0"),
   OtherLine}
MainCifTexts == SeqsUpTo(MainCifLines, MaxCifLines)

\* What r.json()[0] yields: None when the body is no JSON, no list, an
\* empty list or a null first element; else an object whose `sequence` and
\* `cifUrl` keys may be missing.
Payloads(accession) ==
  {None} \cup
  {Some([sequence |-> s, cifUrl |-> c]) :
     s \in {None} \cup {Some(q) : q \in ResidueSequences},
     c \in {None, Some(CifUrlOf(accession))}}

\* A response, by the views of it the code reads: status_code, json()[0]
\* and text.  The body of a non-200 response is never read.
Response(st, js, tx) == [status_code |-> st, json0 |-> js, text |-> tx]
Responses(url) ==
  {Response(st, None, <<>>) : st \in Statuses \ {HTTP_OK}} \cup
  (IF url[1] = "prediction"
     THEN {Response(HTTP_OK, js, <<>>) : js \in Payloads(url[2])}
     ELSE {Response(HTTP_OK, None, tx) : tx \in MainCifTexts})

\* ------------------------------------------------------------------ parser
\* parse_plddt_from_cif from line k on: exc is the exception raised (None
\* when the call returns) and plddt_list the list built so far.
RECURSIVE ParseFrom(_, _, _, _)
ParseFrom(cif_lines, k, cur_residue, plddt_list) ==
  IF k > Len(cif_lines) THEN [exc |-> None, plddt_list |-> plddt_list]
  ELSE
    LET cols == cif_lines[k] IN
    IF Len(cols) = 0 \/ cols[1] # "ATOM"
      THEN ParseFrom(cif_lines, k + 1, cur_residue, plddt_list)
    ELSE IF Len(cols) < RESIDUE_COL + 1
      THEN [exc |-> Some("IndexError"), plddt_list |-> plddt_list]
    ELSE IF cols[RESIDUE_COL + 1] \notin IntTokens
      THEN [exc |-> Some("ValueError"), plddt_list |-> plddt_list]
    ELSE IF Len(cols) < PLDDT_COL + 1
      THEN [exc |-> Some("IndexError"), plddt_list |-> plddt_list]
    ELSE IF cols[PLDDT_COL + 1] \notin FloatTokens
      THEN [exc |-> Some("ValueError"), plddt_list |-> plddt_list]
    ELSE
      LET residue_number == IntOf(cols[RESIDUE_COL + 1])
          plddt == FloatOf(cols[PLDDT_COL + 1])
      IN
      IF residue_number < 1
        THEN [exc |-> Some("ResidueNumberError"), plddt_list |-> plddt_list]
      ELSE IF FloatLt(plddt, PLDDT_MIN) \/ FloatLt(PLDDT_MAX, plddt)
        THEN [exc |-> Some("PlddtRangeError"), plddt_list |-> plddt_list]
      ELSE IF residue_number # cur_residue
        THEN ParseFrom(cif_lines, k + 1, residue_number,
                       Append(plddt_list, plddt))
      ELSE ParseFrom(cif_lines, k + 1, cur_residue, plddt_list)

parse_plddt_from_cif_CurOne(cif_text) == ParseFrom(cif_text, 1, 1, <<>>)

\* Lines 30-58: the whole text, with cur_residue = -1 and an empty list.
parse_plddt_from_cif(cif_text) == ParseFrom(cif_text, 1, NO_RESIDUE, <<>>)

\* The texts given to a direct call: ATOM records with residue indices
\* around 1 and values at, inside and beyond the limits, a record whose
\* index is no numeral, a short record, and lines that are no records.
ParseLines ==
  {AtomLine(res, pl) : res \in {"0", "1", "2"},
                       pl \in {"-0.1", "0.0", "100.0", "100.1", "nan"}}
  \cup {AtomLine("?", "0.0"), ShortAtomLine, OtherLine, EmptyLine}
ParseTexts == SeqsUpTo(ParseLines, MaxParseLines)

\* ------------------------------------------------------------------- state
VARIABLES
  \* the files
  output_file,      \* rows of the table at output_path (None: no such file)
  exc_file,         \* rows of saved_after_exc.parquet (None: no such file)
  \* main
  pc,               \* "idle", "for", "query", "done", "raised"
  uniprot_ids_in,   \* argument of the running (or last) call of main
  df_out,           \* the rows in memory
  accession_list,   \* list(ids_to_query), given to query_alphafold_bulk
  gen_i,            \* elements the generator has been asked for
  gen_kwargs,       \* the keyword arguments the generator passes on
  idx,              \* main's counter of consumed results
  exc,              \* the exception main re-raised (None: none)
  runs,             \* calls of main so far
  \* query_alphafold
  q_pc,             \* "idle", "meta", "cif", "ret", "raised"
  q_args,           \* accession, timeout, retries, get_cif, backoff_time
  q_locals,         \* the five return values, as assigned so far
  q_result,         \* the AlphaFoldQueryResult returned (None: none yet)
  q_exc,            \* the exception the call raised (None: none)
  \* get_with_retries
  f_pc,             \* "idle", "loop", "ret", "raised"
  f_args,           \* url, retries, backoff_time, timeout
  f_i,              \* iterations of the for loop begun and failed
  f_r,              \* the response returned (None: none yet)
  \* parse_plddt_from_cif, called directly
  p_text,           \* the argument (None: no call yet)
  p_out,            \* the outcome (None: not returned yet)
  \* what happened, for the properties
  net_log,          \* requests.get and time.sleep calls of the current call
  queried,          \* accessions given to query_alphafold in this run
  consumed,         \* <<accession, http_status>> of the results main consumed
  loaded,           \* the rows main loaded at the start of this run
  rerun,            \* this run repeats the input of a run that ended normally
  prev_failed       \* when rerun: accessions that run consumed with a non-200 status

vars == <<output_file, exc_file, pc, uniprot_ids_in, df_out, accession_list,
          gen_i, idx, exc, runs, q_pc, q_args, q_locals, q_result, q_exc, f_pc,
          f_args, f_i, f_r, net_log, queried, consumed, loaded, rerun,
          prev_failed, gen_kwargs, p_text, p_out>>

fileVars == <<output_file, exc_file>>
mainVars == <<pc, uniprot_ids_in, df_out, accession_list, gen_i, idx, exc,
              runs, queried, consumed, loaded, rerun, prev_failed, gen_kwargs>>
parseVars == <<p_text, p_out>>
queryVars == <<q_pc, q_args, q_locals, q_result, q_exc>>
fetchVars == <<f_pc, f_args, f_i, f_r>>

NoArgs == [accession |-> "", timeout |-> 0, retries |-> 0, get_cif |-> FALSE,
           backoff_time |-> 0]
NoFetchArgs == [url |-> <<"", "">>, retries |-> 0, backoff_time |-> 0,
                timeout |-> 0]
\* lines 69-72: the defaults of query_alphafold's keyword arguments
DefaultKwargs == [timeout |-> DEFAULT_TIMEOUT, retries |-> DEFAULT_RETRIES,
                  get_cif |-> TRUE, backoff_time |-> DEFAULT_BACKOFF]
\* lines 79-83 of query_alphafold
NoLocals == [response_code_alpha_fold |-> NO_STATUS, sequence |-> None,
             plddts |-> None, alpha_fold_data |-> None, cif_text |-> None]

Init ==
  /\ output_file = None
  /\ exc_file = None
  /\ pc = "idle"
  /\ uniprot_ids_in = <<>>
  /\ df_out = <<>>
  /\ accession_list = <<>>
  /\ gen_i = 0
  /\ idx = 0
  /\ exc = None
  /\ runs = 0
  /\ q_pc = "idle"
  /\ q_args = NoArgs
  /\ q_locals = NoLocals
  /\ q_result = None
  /\ q_exc = None
  /\ f_pc = "idle"
  /\ f_args = NoFetchArgs
  /\ f_i = 0
  /\ f_r = None
  /\ net_log = <<>>
  /\ queried = <<>>
  /\ consumed = <<>>
  /\ loaded = <<>>
  /\ rerun = FALSE
  /\ prev_failed = {}
  /\ gen_kwargs = DefaultKwargs
  /\ p_text = None
  /\ p_out = None

\* -------------------------------------------------------- get_with_retries
GetEvent(url, timeout, status) ==
  [op |-> "get", url |-> url, timeout |-> timeout, n |-> status]
\* time.sleep(backoff_time), line 22
SleepEvent_FixedBackoff(url, timeout, secs) ==
  [op |-> "sleep", url |-> url, timeout |-> timeout, n |-> DEFAULT_BACKOFF]
SleepEvent(url, timeout, secs) ==
  [op |-> "sleep", url |-> url, timeout |-> timeout, n |-> secs]

CallEvent(url, timeout, retries) ==
  [op |-> "call", url |-> url, timeout |-> timeout, n |-> retries]

\* The call get_with_retries(url, retries, backoff_time, timeout=timeout).
CallFetch(url, retries, backoff_time, timeout) ==
  /\ f_pc' = "loop"
  /\ f_args' = [url |-> url, retries |-> retries,
                backoff_time |-> backoff_time, timeout |-> timeout]
  /\ f_i' = 0
  /\ f_r' = None

\* An exception leaving get_with_retries unwinds the call of
\* query_alphafold it was made from, if any.
FetchRaises(e) ==
  /\ f_pc' = "raised"
  /\ f_r' = None
  /\ IF q_pc \in {"meta", "cif"}
       THEN q_pc' = "raised" /\ q_exc' = Some(e)
       ELSE UNCHANGED <<q_pc, q_exc>>

\* The frame of a call is gone once the call has returned or raised.
FetchFrameGone ==
  /\ f_pc' = "idle"
  /\ f_args' = NoFetchArgs
  /\ f_i' = 0
  /\ f_r' = None

QueryFrameGone ==
  /\ q_pc' = "idle"
  /\ q_args' = NoArgs
  /\ q_locals' = NoLocals
  /\ q_result' = None
  /\ q_exc' = None
  /\ net_log' = <<>>

\* Whether the for loop has another iteration.
LoopRuns == f_i < f_args.retries

\* One iteration of `for i in range(retries)`: a GET; a non-200 response is
\* followed by the sleep and the next iteration, a 200 response is returned.
LoopGet ==
  /\ f_pc = "loop"
  /\ LoopRuns
  /\ \/ \E r \in Responses(f_args.url) :
          LET got == Append(net_log,
                       GetEvent(f_args.url, f_args.timeout, r.status_code))
          IN
          IF r.status_code # HTTP_OK
            THEN /\ net_log' = Append(got, SleepEvent(f_args.url,
                                  f_args.timeout, f_args.backoff_time))
                 /\ f_i' = f_i + 1
                 /\ UNCHANGED <<f_pc, f_r, q_pc, q_exc>>
            ELSE /\ net_log' = got
                 /\ f_pc' = "ret"
                 /\ f_r' = Some(r)
                 /\ UNCHANGED <<f_i, q_pc, q_exc>>
     \/ /\ net_log' = Append(net_log,
                        GetEvent(f_args.url, f_args.timeout, NO_STATUS))
        /\ FetchRaises("ConnectionError")
        /\ UNCHANGED f_i
  /\ UNCHANGED <<fileVars, mainVars, parseVars, q_args, q_locals, q_result,
                 f_args>>

\* The statement after the loop: one more GET, whose response is returned
\* whatever its status.
FinalGet ==
  /\ f_pc = "loop"
  /\ ~LoopRuns
  /\ \/ \E r \in Responses(f_args.url) :
          /\ net_log' = Append(net_log,
                          GetEvent(f_args.url, f_args.timeout, r.status_code))
          /\ f_pc' = "ret"
          /\ f_r' = Some(r)
          /\ UNCHANGED <<q_pc, q_exc>>
     \/ /\ net_log' = Append(net_log,
                        GetEvent(f_args.url, f_args.timeout, NO_STATUS))
        /\ FetchRaises("ConnectionError")
  /\ UNCHANGED <<fileVars, mainVars, parseVars, q_args, q_locals, q_result,
                 f_args, f_i>>

\* A direct call of get_with_retries.
FetchStart ==
  /\ pc = "idle" /\ q_pc = "idle" /\ f_pc = "idle"
  /\ \E url \in {PredictionUrl(a) : a \in Accessions},
        retries \in 1..MaxRetries,
        backoff_time \in {0, DEFAULT_BACKOFF} :
       /\ CallFetch(url, retries, backoff_time, DEFAULT_TIMEOUT)
       /\ net_log' = <<CallEvent(url, DEFAULT_TIMEOUT, retries)>>
  /\ UNCHANGED <<fileVars, mainVars, queryVars, parseVars>>

FetchNext == FetchStart \/ LoopGet \/ FinalGet
FetchSpec == Init /\ [][FetchNext]_vars

\* --------------------------------------------------------- query_alphafold
AlphaFoldQueryResult(http_status, accession, sequence, plddts, alpha_fold_data, cif_text) ==
  [http_status |-> http_status, accession |-> accession,
   sequence |-> sequence, plddts |-> plddts,
   alpha_fold_data |-> alpha_fold_data, cif_text |-> cif_text]

ResultOf_DropsText(accession, l) ==
  AlphaFoldQueryResult(l.response_code_alpha_fold, accession, l.sequence,
                       l.plddts, l.alpha_fold_data, None)

\* Lines 135-137: the namedtuple built from the five locals.
ResultOf(accession, l) ==
  AlphaFoldQueryResult(l.response_code_alpha_fold, accession, l.sequence,
                       l.plddts, l.alpha_fold_data, l.cif_text)

AfterMetadata_IgnoresGetCif(r, get_cif) ==
  LET l0 == [NoLocals EXCEPT !.response_code_alpha_fold = r.status_code] IN
  IF r.status_code # HTTP_OK THEN [locals |-> l0, cif_url |-> None]
  ELSE
    LET l1 == [l0 EXCEPT !.alpha_fold_data = r.json0] IN
    IF IsNone(l1.alpha_fold_data) THEN [locals |-> l1, cif_url |-> None]
    ELSE
      LET l2 == [l1 EXCEPT !.sequence = Val(l1.alpha_fold_data).sequence] IN
      IF IsNone(l2.sequence) THEN [locals |-> l2, cif_url |-> None]
      ELSE [locals |-> l2, cif_url |-> Val(l2.alpha_fold_data).cifUrl]

\* Lines 87-113: the locals after the metadata response r, and the URL of
\* the structure file when the call goes on to fetch it (None: it returns).
AfterMetadata(r, get_cif) ==
  LET l0 == [NoLocals EXCEPT !.response_code_alpha_fold = r.status_code] IN
  IF r.status_code # HTTP_OK THEN [locals |-> l0, cif_url |-> None]
  ELSE
    LET l1 == [l0 EXCEPT !.alpha_fold_data = r.json0] IN
    IF IsNone(l1.alpha_fold_data) THEN [locals |-> l1, cif_url |-> None]
    ELSE
      LET l2 == [l1 EXCEPT !.sequence = Val(l1.alpha_fold_data).sequence] IN
      IF IsNone(l2.sequence) THEN [locals |-> l2, cif_url |-> None]
      ELSE IF get_cif
        THEN [locals |-> l2, cif_url |-> Val(l2.alpha_fold_data).cifUrl]
      ELSE [locals |-> l2, cif_url |-> None]

AfterCif_NoLengthCheck(l, r_cif) ==
  IF r_cif.status_code # HTTP_OK THEN [locals |-> l, exc |-> None]
  ELSE
    LET l1 == [l EXCEPT !.cif_text = Some(r_cif.text)]
        parsed == parse_plddt_from_cif(r_cif.text)
    IN
    IF ~IsNone(parsed.exc) THEN [locals |-> l1, exc |-> parsed.exc]
    ELSE [locals |-> [l1 EXCEPT !.plddts = Some(parsed.plddt_list)],
          exc |-> None]

\* Lines 122-133: the locals after the structure-file response r_cif, and
\* the exception raised (None: the call returns).
AfterCif(l, r_cif) ==
  IF r_cif.status_code # HTTP_OK THEN [locals |-> l, exc |-> None]
  ELSE
    LET l1 == [l EXCEPT !.cif_text = Some(r_cif.text)]
        parsed == parse_plddt_from_cif(r_cif.text)
    IN
    IF ~IsNone(parsed.exc) THEN [locals |-> l1, exc |-> parsed.exc]
    ELSE
      LET l2 == [l1 EXCEPT !.plddts = Some(parsed.plddt_list)] IN
      IF Len(Val(l2.sequence)) # Len(Val(l2.plddts))
        THEN [locals |-> l2, exc |-> Some("LengthMismatch")]
      ELSE [locals |-> l2, exc |-> None]

\* The call query_alphafold(accession, timeout, retries, get_cif,
\* backoff_time), up to its first GET (lines 76-85).
CallQuery(accession, timeout, retries, get_cif, backoff_time) ==
  /\ q_pc' = "meta"
  /\ q_args' = [accession |-> accession, timeout |-> timeout,
                retries |-> retries, get_cif |-> get_cif,
                backoff_time |-> backoff_time]
  /\ q_locals' = NoLocals
  /\ q_result' = None
  /\ q_exc' = None
  /\ net_log' = <<CallEvent(PredictionUrl(accession), timeout, retries)>>
  /\ CallFetch(PredictionUrl(accession), retries, META_BACKOFF, timeout)

\* The metadata fetch has returned: lines 87-120 and, when no structure
\* file is to be fetched, the return of line 135.
QueryAfterMetadata ==
  /\ q_pc = "meta"
  /\ f_pc = "ret"
  /\ LET m == AfterMetadata(Val(f_r), q_args.get_cif) IN
     /\ q_locals' = m.locals
     /\ IF IsNone(m.cif_url)
          THEN /\ q_pc' = "ret"
               /\ q_result' = Some(ResultOf(q_args.accession, m.locals))
               /\ FetchFrameGone
               /\ UNCHANGED net_log
          ELSE /\ q_pc' = "cif"
               /\ q_result' = None
               /\ CallFetch(Val(m.cif_url), q_args.retries,
                            q_args.backoff_time, q_args.timeout)
               /\ net_log' = Append(net_log, CallEvent(Val(m.cif_url),
                                       q_args.timeout, q_args.retries))
  /\ UNCHANGED <<fileVars, mainVars, parseVars, q_args, q_exc>>

\* The structure-file fetch has returned: lines 122-137.
QueryAfterCif ==
  /\ q_pc = "cif"
  /\ f_pc = "ret"
  /\ LET c == AfterCif(q_locals, Val(f_r)) IN
     /\ q_locals' = c.locals
     /\ IF IsNone(c.exc)
          THEN /\ q_pc' = "ret"
               /\ q_result' = Some(ResultOf(q_args.accession, c.locals))
               /\ q_exc' = None
          ELSE /\ q_pc' = "raised"
               /\ q_result' = None
               /\ q_exc' = c.exc
  /\ FetchFrameGone
  /\ UNCHANGED <<fileVars, mainVars, parseVars, q_args, net_log>>

\* A direct call of query_alphafold, with arguments of the caller's choice.
Timeouts == {1, DEFAULT_TIMEOUT}
QueryStart ==
  /\ pc = "idle"
  /\ q_pc \in {"idle", "ret", "raised"}
  /\ \E accession \in Accessions, timeout \in Timeouts,
        retries \in 1..MaxRetries, get_cif \in BOOLEAN,
        backoff_time \in {0, DEFAULT_BACKOFF} :
       CallQuery(accession, timeout, retries, get_cif, backoff_time)
  /\ UNCHANGED <<fileVars, mainVars, parseVars>>

QueryNext ==
  QueryStart \/ LoopGet \/ FinalGet \/ QueryAfterMetadata \/ QueryAfterCif
QuerySpec == Init /\ [][QueryNext]_vars

\* ---------------------------------------------------- parse_plddt_from_cif
\* A direct call parse_plddt_from_cif(cif_text), and its return or raise.
\* The function keeps nothing between calls: a behaviour is one call.
ParseStart ==
  /\ pc = "idle" /\ q_pc = "idle" /\ f_pc = "idle"
  /\ IsNone(p_text)
  /\ \E cif_text \in ParseTexts : p_text' = Some(cif_text)
  /\ UNCHANGED <<fileVars, mainVars, queryVars, fetchVars, net_log, p_out>>

ParseReturn ==
  /\ ~IsNone(p_text)
  /\ IsNone(p_out)
  /\ p_out' = Some(parse_plddt_from_cif(Val(p_text)))
  /\ UNCHANGED <<fileVars, mainVars, queryVars, fetchVars, net_log, p_text>>

ParseNext == ParseStart \/ ParseReturn
ParseSpec == Init /\ [][ParseNext]_vars

\* -------------------------------------------------------------------- main
Row(uniprot_id, n_residues, sequence, plddts) ==
  [uniprot_id |-> uniprot_id, n_residues |-> n_residues,
   sequence |-> sequence, plddts |-> plddts]

UniprotIds(df) == {df[k].uniprot_id : k \in 1..Len(df)}

LoadTable_Empty(file) == <<>>

\* Lines 13-18: the table read from output_path, or an empty one.
LoadTable(file) == IF IsNone(file) THEN <<>> ELSE Val(file)

IdsToQuery_NoSeen(ids_in, df) == Range(ids_in)

\* Lines 20-24: the ids to query.
IdsToQuery(ids_in, df) == Range(ids_in) \ UniprotIds(df)

\* The rows a file holds, and the accessions a run consumed with a
\* non-200 status.
StoreRows(file) == IF file = None THEN <<>> ELSE file[1]
Failed(results) ==
  {results[k][1] : k \in {j \in 1..Len(results) : results[j][2] # HTTP_OK}}

PendingLists_NoDedup(ids_in, df) ==
  {SelectSeq(ids_in, LAMBDA a : a \notin UniprotIds(df))}

\* Line 31: list(ids_to_query), in any order the set may enumerate.
PendingLists(ids_in, df) == Perms(IdsToQuery(ids_in, df))

InputLists == SeqsUpTo(Accessions, MaxInput)

\* Lines 13-33 of a call main(uniprot_ids_in, output_path).
StartMain ==
  /\ pc \in {"idle", "done", "raised"}
  /\ f_pc # "loop"
  /\ runs < MaxRuns
  /\ \E ids \in InputLists :
       LET df == LoadTable(output_file) IN
       /\ uniprot_ids_in' = ids
       /\ df_out' = df
       /\ accession_list' \in PendingLists(ids, df)
       /\ rerun' = (pc = "done" /\ ids = uniprot_ids_in)
       /\ prev_failed' = IF pc = "done" /\ ids = uniprot_ids_in
                           THEN Failed(consumed) ELSE {}
  /\ loaded' = StoreRows(output_file)
  /\ pc' = "for"
  /\ gen_i' = 0
  /\ idx' = 0
  /\ exc' = None
  /\ runs' = runs + 1
  /\ queried' = <<>>
  /\ consumed' = <<>>
  /\ gen_kwargs' = DefaultKwargs
  /\ UNCHANGED <<fileVars, queryVars, fetchVars, net_log, parseVars>>

GeneratorStopsEarly == gen_i + 1 < Len(accession_list)

\* Whether the generator of query_alphafold_bulk has another element.
GeneratorHasNext == gen_i < Len(accession_list)

NextAccession_FromEnd == accession_list[Len(accession_list) - gen_i]

\* Line 145: the element of accession_list the generator is at.
NextAccession == accession_list[gen_i + 1]

\* The generator is asked for its next element: it calls
\* query_alphafold(a, **kwargs) for the next a (lines 145-146).
GeneratorNext ==
  /\ gen_i' = gen_i + 1
  /\ queried' = Append(queried, NextAccession)
  /\ CallQuery(NextAccession, gen_kwargs.timeout, gen_kwargs.retries,
               gen_kwargs.get_cif, gen_kwargs.backoff_time)

\* main's for loop asks the generator for its next element; main passed
\* no keyword arguments, so the defaults apply (line 31, lines 67-73).
NextQuery ==
  /\ pc = "for"
  /\ GeneratorHasNext
  /\ pc' = "query"
  /\ GeneratorNext
  /\ UNCHANGED <<fileVars, uniprot_ids_in, df_out, accession_list, idx, exc,
                 runs, consumed, loaded, rerun, prev_failed, gen_kwargs,
                 parseVars>>

SaveAfterExc_WritesPrimary(e) ==
  /\ exc_file' = Some(df_out)
  /\ output_file' = Some(df_out)
  /\ exc' = e
  /\ pc' = "raised"

\* Lines 55-68: the handler saves the rows in memory to saved_after_exc
\* and raises the exception again.
SaveAfterExc(e) ==
  /\ exc_file' = Some(df_out)
  /\ output_file' = output_file
  /\ exc' = e
  /\ pc' = "raised"

BodyOutcome_OverwritesLast(query_result, df) ==
  IF query_result.http_status # HTTP_OK THEN [exc |-> None, df |-> df]
  ELSE IF IsNone(query_result.sequence)
    THEN [exc |-> Some("TypeError"), df |-> df]
  ELSE
    LET row == Row(query_result.accession, Len(Val(query_result.sequence)),
                   Val(query_result.sequence), query_result.plddts)
    IN [exc |-> None,
        df |-> IF df = <<>> THEN <<row>> ELSE [df EXCEPT ![Len(df)] = row]]

BodyOutcome_Only404(query_result, df) ==
  IF query_result.http_status = 404 THEN [exc |-> None, df |-> df]
  ELSE IF IsNone(query_result.sequence)
    THEN [exc |-> Some("TypeError"), df |-> df]
  ELSE [exc |-> None,
        df |-> Append(df, Row(query_result.accession,
                              Len(Val(query_result.sequence)),
                              Val(query_result.sequence),
                              query_result.plddts))]

\* Lines 36-53: the loop body for a result: a non-200 result is skipped;
\* otherwise the row is added, which raises TypeError for len(None).
BodyOutcome(query_result, df) ==
  IF query_result.http_status # HTTP_OK THEN [exc |-> None, df |-> df]
  ELSE IF IsNone(query_result.sequence)
    THEN [exc |-> Some("TypeError"), df |-> df]
  ELSE [exc |-> None,
        df |-> Append(df, Row(query_result.accession,
                              Len(Val(query_result.sequence)),
                              Val(query_result.sequence),
                              query_result.plddts))]

Consume ==
  /\ pc = "query"
  /\ q_pc = "ret"
  /\ LET query_result == Val(q_result)
         b == BodyOutcome(query_result, df_out)
     IN
     /\ idx' = idx + 1
     /\ consumed' = Append(consumed, <<query_result.accession,
                                       query_result.http_status>>)
     /\ df_out' = b.df
     /\ IF IsNone(b.exc)
          THEN pc' = "for" /\ UNCHANGED <<fileVars, exc>>
          ELSE SaveAfterExc(b.exc)
  /\ QueryFrameGone
  /\ UNCHANGED <<uniprot_ids_in, accession_list, gen_i, runs, queried, loaded,
                 rerun, prev_failed, gen_kwargs, fetchVars, parseVars>>

\* query_alphafold raised: the exception leaves the generator and the for
\* loop and reaches the handler.
QueryRaised ==
  /\ pc = "query"
  /\ q_pc = "raised"
  /\ SaveAfterExc(q_exc)
  /\ QueryFrameGone
  /\ FetchFrameGone
  /\ UNCHANGED <<uniprot_ids_in, df_out, accession_list, gen_i, idx, runs,
                 queried, consumed, loaded, rerun, prev_failed, gen_kwargs,
                 parseVars>>

\* Lines 70-71: the generator is exhausted and the table is written.
Finish ==
  /\ pc = "for"
  /\ ~GeneratorHasNext
  /\ output_file' = Some(df_out)
  /\ pc' = "done"
  /\ UNCHANGED <<exc_file, uniprot_ids_in, df_out, accession_list, gen_i, idx,
                 exc, runs, queried, consumed, loaded, rerun, prev_failed,
                 gen_kwargs, queryVars, fetchVars, net_log, parseVars>>

Next ==
  \/ StartMain
  \/ NextQuery
  \/ LoopGet
  \/ FinalGet
  \/ QueryAfterMetadata
  \/ QueryAfterCif
  \/ Consume
  \/ QueryRaised
  \/ Finish

Spec == Init /\ [][Next]_vars

\* ---------------------------------------------------- query_alphafold_bulk
\* A consumer of query_alphafold_bulk(accession_list, **kwargs) other than
\* main: it may pass get_cif (as line 166 does) and may stop at any element.
BulkKwargs == {[DefaultKwargs EXCEPT !.get_cif = g] : g \in BOOLEAN}
BulkOver == {"idle", "bulk_stopped", "bulk_end", "bulk_raised"}

\* Lines 140-144: the call creates the generator; nothing of its body runs.
BulkStart ==
  /\ pc \in BulkOver
  /\ accession_list' \in InputLists
  /\ gen_kwargs' \in BulkKwargs
  /\ gen_i' = 0
  /\ queried' = <<>>
  /\ consumed' = <<>>
  /\ pc' = "bulk"
  /\ UNCHANGED <<fileVars, uniprot_ids_in, df_out, idx, exc, runs, loaded,
                 rerun, prev_failed, queryVars, fetchVars, net_log,
                 parseVars>>

\* The consumer asks for the next element: the body runs up to the call of
\* query_alphafold for it (lines 145-146).
BulkNext ==
  /\ pc = "bulk"
  /\ GeneratorHasNext
  /\ pc' = "bulk_query"
  /\ GeneratorNext
  /\ UNCHANGED <<fileVars, uniprot_ids_in, df_out, accession_list, idx, exc,
                 runs, consumed, loaded, rerun, prev_failed, gen_kwargs,
                 parseVars>>

\* Line 146: the result is yielded to the consumer and the body suspends.
BulkYield ==
  /\ pc = "bulk_query"
  /\ q_pc = "ret"
  /\ consumed' = Append(consumed, <<Val(q_result).accession,
                                    Val(q_result).http_status>>)
  /\ pc' = "bulk"
  /\ QueryFrameGone
  /\ UNCHANGED <<fileVars, uniprot_ids_in, df_out, accession_list, gen_i, idx,
                 exc, runs, queried, loaded, rerun, prev_failed, gen_kwargs,
                 fetchVars, parseVars>>

\* query_alphafold raised: the exception ends the generator.
BulkRaised ==
  /\ pc = "bulk_query"
  /\ q_pc = "raised"
  /\ pc' = "bulk_raised"
  /\ QueryFrameGone
  /\ FetchFrameGone
  /\ UNCHANGED <<fileVars, uniprot_ids_in, df_out, accession_list, gen_i, idx,
                 exc, runs, queried, consumed, loaded, rerun, prev_failed,
                 gen_kwargs, parseVars>>

\* The consumer asks for an element when the for loop of line 145 is over.
BulkExhausted ==
  /\ pc = "bulk"
  /\ ~GeneratorHasNext
  /\ pc' = "bulk_end"
  /\ UNCHANGED <<fileVars, uniprot_ids_in, df_out, accession_list, gen_i, idx,
                 exc, runs, queried, consumed, loaded, rerun, prev_failed,
                 gen_kwargs, queryVars, fetchVars, net_log, parseVars>>

\* The consumer asks for no more elements and drops the generator.
BulkStop ==
  /\ pc = "bulk"
  /\ pc' = "bulk_stopped"
  /\ UNCHANGED <<fileVars, uniprot_ids_in, df_out, accession_list, gen_i, idx,
                 exc, runs, queried, consumed, loaded, rerun, prev_failed,
                 gen_kwargs, queryVars, fetchVars, net_log, parseVars>>

BulkStep ==
  \/ BulkStart \/ BulkNext \/ BulkYield \/ BulkRaised \/ BulkExhausted
  \/ BulkStop
  \/ LoopGet \/ FinalGet \/ QueryAfterMetadata \/ QueryAfterCif
BulkSpec == Init /\ [][BulkStep]_vars

\* ============================================================== properties
Gets(log) == {k \in 1..Len(log) : log[k].op = "get"}
Sleeps(log) == {k \in 1..Len(log) : log[k].op = "sleep"}
LastGet(log) == log[CHOOSE k \in Gets(log) : \A j \in Gets(log) : j <= k]
AllNon200(log) == \A k \in Gets(log) : log[k].n \notin {HTTP_OK, NO_STATUS}
NoDuplicates(s) == \A i, j \in 1..Len(s) : s[i] = s[j] => i = j
Succeeded(results) ==
  {results[k][1] : k \in {j \in 1..Len(results) : results[j][2] = HTTP_OK}}
IsPrefix(s, t) == Len(s) <= Len(t) /\ SubSeq(t, 1, Len(s)) = s
DirectFetch == q_pc = "idle" /\ pc = "idle"

\* ---------------------------------------------------------------------- C1
\* C1 (as claimed): a direct call get_with_retries(url, N, ...) whose every
\* response is non-200 has made exactly N GETs when it returns, and returns
\* the response of the last one.  The code makes N + 1: the N of the loop
\* and the one of line 27.
C1_ExactlyRetriesAttempts ==
  (DirectFetch /\ f_pc = "ret" /\ AllNon200(net_log)) =>
    /\ Cardinality(Gets(net_log)) = f_args.retries
    /\ Val(f_r).status_code = LastGet(net_log).n

\* ---------------------------------------------------------------------- C2
\* C2: when query_alphafold raises while main consumes the generator, the
\* handler writes the rows in memory (the loaded rows followed by one row
\* per result appended so far) to the recovery file, leaves the primary
\* file as it was, raises the same exception again and queries nothing
\* more: the primary file is written only by a step that ends the run
\* normally, and the only step after the failure is the start of a new run.
C2_Handler ==
  (pc = "query" /\ q_pc = "raised") =>
    /\ exc_file' = Some(df_out)
    /\ IsPrefix(loaded, df_out)
    /\ Len(df_out) = Len(loaded) + Cardinality(Succeeded(consumed))
    /\ output_file' = output_file
    /\ exc' = q_exc /\ ~IsNone(exc')
    /\ pc' = "raised"
    /\ queried' = queried
C2_NoPrimaryWrite == output_file' # output_file => pc' = "done"
C2_NothingAfter ==
  pc = "raised" => (pc' = "for" /\ runs' = runs + 1 /\ queried' = <<>>)
C2_RecoverySave ==
  [][C2_Handler /\ C2_NoPrimaryWrite /\ C2_NothingAfter]_vars

\* A run that appended a row and then failed on a length mismatch, with the
\* row in the recovery file and no primary file.
C2_Witness ==
  /\ pc = "raised"
  /\ exc = Some("LengthMismatch")
  /\ Len(df_out) = 1
  /\ exc_file = Some(df_out)
  /\ output_file = None
  /\ Len(queried) = 2

\* ---------------------------------------------------------------------- C3
\* C3: a metadata fetch that ends with a non-200 status s makes
\* query_alphafold return the result (s, accession, None, None, None, None);
\* main, consuming a non-200 result, appends no row and writes no file, and
\* its next step asks for the result of the next pending accession.
C3_QueryReturns ==
  (q_pc = "meta" /\ f_pc = "ret" /\ Val(f_r).status_code # HTTP_OK) =>
    /\ q_pc' = "ret"
    /\ q_result' = Some(AlphaFoldQueryResult(Val(f_r).status_code,
                          q_args.accession, None, None, None, None))
C3_MainSkips ==
  (pc = "query" /\ q_pc = "ret" /\ Val(q_result).http_status # HTTP_OK) =>
    /\ df_out' = df_out
    /\ pc' = "for"
    /\ UNCHANGED <<output_file, exc_file, exc, gen_i, accession_list>>
C3_MainGoesOn ==
  (pc = "for" /\ gen_i < Len(accession_list)) =>
    /\ pc' = "query"
    /\ q_pc' = "meta"
    /\ q_args'.accession = accession_list[gen_i + 1]
    /\ queried' = Append(queried, accession_list[gen_i + 1])
C3_ContainedStatus ==
  [][C3_QueryReturns /\ C3_MainSkips /\ C3_MainGoesOn]_vars

\* The first accession ended with 404, got no row, and the second one has
\* been queried and consumed.
C3_Witness ==
  /\ Len(consumed) = 2
  /\ consumed[1][2] = 404
  /\ consumed[1][1] \notin UniprotIds(df_out)
  /\ queried = <<consumed[1][1], consumed[2][1]>>
  /\ pc = "done"

\* ---------------------------------------------------------------------- C4
\* C4: in a run, no accession is queried twice and every queried accession
\* is an input accession that had no row in the store at load time; when
\* the run ends normally, every such accession has been queried.
C4_QueriedExactlyPending ==
  /\ NoDuplicates(queried)
  /\ Range(queried) \subseteq Range(uniprot_ids_in) \ UniprotIds(loaded)
  /\ pc = "done" =>
       Range(queried) = Range(uniprot_ids_in) \ UniprotIds(loaded)

\* A run on "A" and "B" with "B" in the store: only "A" is queried, once.
C4_Witness ==
  /\ pc = "done"
  /\ Range(uniprot_ids_in) = {"A", "B"}
  /\ UniprotIds(loaded) = {"B"}
  /\ queried = <<"A">>

\* ---------------------------------------------------------------------- C5
\* C5 (as claimed): every row of the primary and of the recovery file has
\* len(sequence) = len(plddts) = n_residues.  The code appends a row whose
\* plddts is None when the structure file was not fetched.
RowLengthsAgree(row) ==
  /\ Len(row.sequence) = row.n_residues
  /\ ~IsNone(row.plddts)
  /\ Len(Val(row.plddts)) = row.n_residues
C5_RowLengths ==
  \A file \in {output_file, exc_file} :
    \A k \in 1..Len(StoreRows(file)) : RowLengthsAgree(StoreRows(file)[k])

\* ---------------------------------------------------------------------- C6
\* C6 (as claimed): a run that repeats the input of a run that ended
\* normally queries nothing and leaves the rows of the store unchanged.
C6_RerunQueriesNothing ==
  rerun => /\ queried = <<>>
           /\ pc = "done" => StoreRows(output_file) = loaded

\* C6 (amended): such a run queries, once each, exactly the accessions the
\* first run consumed with a non-200 status (they got no row); when there
\* are none it queries nothing, makes no request and leaves the rows of the
\* store unchanged.
C6_RerunQueriesOnlyFailed ==
  rerun =>
    /\ NoDuplicates(queried)
    /\ Range(queried) \subseteq prev_failed
    /\ pc = "done" => Range(queried) = prev_failed
    /\ prev_failed = {} =>
         /\ queried = <<>>
         /\ net_log = <<>>
         /\ pc = "done" => output_file = Some(loaded)

\* A repeated run over a store that has a row for every input accession.
C6_Witness ==
  /\ rerun
  /\ pc = "done"
  /\ Range(uniprot_ids_in) = {"A", "B"}
  /\ prev_failed = {}
  /\ queried = <<>>
  /\ Len(loaded) = 2
  /\ output_file = Some(loaded)

\* ---------------------------------------------------------------------- C7
\* C7 (as claimed): after the second of two runs with the same input the
\* primary store holds the same set of rows as after the first.
C7_SameRowsAsOnce ==
  (rerun /\ pc = "done") => Range(StoreRows(output_file)) = Range(loaded)

\* C7 (amended): the second run keeps the first run's rows, unchanged and
\* in order, and adds one row for each accession whose second-run result
\* has status 200, all of them accessions the first run consumed with a
\* non-200 status; the rows are those of the first run when no second-run
\* result has status 200, and also when the second run fails.
C7_SecondRunOnlyAdds ==
  /\ (rerun /\ pc = "done") =>
       LET rows == StoreRows(output_file)
           added == SubSeq(rows, Len(loaded) + 1, Len(rows))
       IN
       /\ ~IsNone(output_file)
       /\ IsPrefix(loaded, rows)
       /\ NoDuplicates(added)
       /\ UniprotIds(added) = Succeeded(consumed)
       /\ UniprotIds(added) \subseteq prev_failed
       /\ Succeeded(consumed) = {} => rows = loaded
  /\ (rerun /\ pc # "done") => output_file = Some(loaded)

\* A second run that queried an accession again, got a non-200 status
\* again and wrote the rows of the first run.
C7_Witness ==
  /\ rerun
  /\ pc = "done"
  /\ Len(consumed) = 1
  /\ consumed[1][2] # HTTP_OK
  /\ Len(loaded) = 1
  /\ output_file = Some(loaded)

\* ---------------------------------------------------------------------- C8
\* C8: every table written, primary or recovery, after any runs of main
\* from a store with at most one row per accession, has at most one row
\* per accession.
UniqueIds(rows) ==
  \A i, j \in 1..Len(rows) : rows[i].uniprot_id = rows[j].uniprot_id => i = j
C8_OneRowPerAccession ==
  /\ UniqueIds(StoreRows(output_file))
  /\ UniqueIds(StoreRows(exc_file))

\* A second run that loaded one row and wrote two.
C8_Witness ==
  /\ runs = 2
  /\ pc = "done"
  /\ Len(loaded) = 1
  /\ Len(StoreRows(output_file)) = 2

\* ---------------------------------------------------------------------- C9
\* C9: a result query_alphafold returns has plddts only with a sequence of
\* the same length, and has the structure text only if the text parses to
\* as many plddts as the sequence is long (otherwise the call raised).
C9_ResultLengths ==
  q_pc = "ret" =>
    LET r == Val(q_result) IN
    /\ ~IsNone(r.plddts) =>
         /\ ~IsNone(r.sequence)
         /\ Len(Val(r.sequence)) = Len(Val(r.plddts))
    /\ ~IsNone(r.cif_text) =>
         LET parsed == parse_plddt_from_cif(Val(r.cif_text)) IN
         /\ IsNone(parsed.exc)
         /\ r.plddts = Some(parsed.plddt_list)
         /\ ~IsNone(r.sequence)
         /\ Len(parsed.plddt_list) = Len(Val(r.sequence))

\* A returned result with one residue and one plddt.
C9_Witness ==
  /\ q_pc = "ret"
  /\ ~IsNone(Val(q_result).plddts)
  /\ Len(Val(Val(q_result).plddts)) = 1
  /\ Len(Val(Val(q_result).sequence)) = 1

\* --------------------------------------------------------------------- C10
\* C10 (as claimed): main, consuming a result with status 200 and no
\* sequence, appends no row, raises nothing and goes on with the loop.  The
\* code evaluates len(None): TypeError, and the run ends in the handler.
C10_MissingFieldStep ==
  (pc = "query" /\ q_pc = "ret" /\ Val(q_result).http_status = HTTP_OK
     /\ IsNone(Val(q_result).sequence)) =>
    /\ pc' = "for"
    /\ exc' = None
    /\ df_out' = df_out
    /\ exc_file' = exc_file
C10_MissingFieldContained == [][C10_MissingFieldStep]_vars

\* --------------------------------------------------------------------- C15
GetSeq(log) == SelectSeq(log, LAMBDA e : e.op = "get")

\* The first half of C15: when attempt k <= retries of a direct call is the
\* first answered 200, exactly k attempts were made, the call has returned
\* that response, and the GET is the last thing the call did.
C15_FirstSuccessEndsCall ==
  DirectFetch =>
    \A k \in 1..Len(GetSeq(net_log)) :
      (k <= f_args.retries /\ GetSeq(net_log)[k].n = HTTP_OK) =>
        /\ Len(GetSeq(net_log)) = k
        /\ net_log[Len(net_log)] = GetSeq(net_log)[k]
        /\ f_pc = "ret"
        /\ Val(f_r).status_code = HTTP_OK

\* C15 (as claimed): in get_with_retries, when attempt k <= retries is the
\* first answered 200, exactly k attempts are made and that response is
\* returned with nothing after it, and no execution makes more than
\* `retries` attempts.  The code makes retries + 1 when none of the first
\* `retries` is answered 200 (line 27).
C15_AttemptsWithinRetries ==
  /\ C15_FirstSuccessEndsCall
  /\ DirectFetch => Len(GetSeq(net_log)) <= f_args.retries

\* --------------------------------------------------------------------- C16
\* C16: in a direct call of get_with_retries the GETs and sleeps alternate,
\* beginning with a GET; every sleep lasts backoff_time and follows a GET
\* answered with a non-200 status; a GET answered 200 is the last event; and
\* once the call has returned or raised, the last event is a GET, so that
\* the sleeps are one fewer than the GETs.
C16_SleepsBetweenAttempts ==
  (DirectFetch /\ f_pc # "idle") =>
    LET ev == SubSeq(net_log, 2, Len(net_log)) IN
    /\ \A k \in 1..Len(ev) :
         /\ ev[k].op = (IF k % 2 = 1 THEN "get" ELSE "sleep")
         /\ ev[k].op = "sleep" =>
              /\ ev[k].n = f_args.backoff_time
              /\ ev[k - 1].n \notin {HTTP_OK, NO_STATUS}
         /\ (ev[k].op = "get" /\ ev[k].n = HTTP_OK) => k = Len(ev)
    /\ f_pc \in {"ret", "raised"} =>
         /\ ev[Len(ev)].op = "get"
         /\ Cardinality(Sleeps(net_log)) = Cardinality(Gets(net_log)) - 1

\* A direct call with backoff_time 0 that returned after three GETs.
C16_Witness ==
  /\ DirectFetch
  /\ f_pc = "ret"
  /\ f_args.backoff_time = 0
  /\ Cardinality(Gets(net_log)) = 3
  /\ Cardinality(Sleeps(net_log)) = 2

\* --------------------------------------------------------------------- C17
Calls(log) == SelectSeq(log, LAMBDA e : e.op = "call")
GetsOf(log, kind) ==
  SelectSeq(log, LAMBDA e : e.op = "get" /\ e.url[1] = kind)
InQuery == q_pc \in {"meta", "cif", "ret", "raised"}

\* The first sentence of C17: a call of query_alphafold has called
\* get_with_retries once or twice, first for the prediction URL of its
\* accession; a second call is for the structure file and is made only when
\* the metadata status is 200, the payload is an object with `sequence` and
\* `cifUrl`, and get_cif is true.
C17_FetchesGated ==
  InQuery =>
    /\ Len(Calls(net_log)) \in {1, 2}
    /\ net_log[1].op = "call"
    /\ net_log[1].url = PredictionUrl(q_args.accession)
    /\ Len(Calls(net_log)) = 2 =>
         /\ Calls(net_log)[2].url = CifUrlOf(q_args.accession)
         /\ q_args.get_cif
         /\ q_locals.response_code_alpha_fold = HTTP_OK
         /\ ~IsNone(q_locals.alpha_fold_data)
         /\ ~IsNone(q_locals.sequence)
         /\ ~IsNone(Val(q_locals.alpha_fold_data).cifUrl)

\* What every result of a call with get_cif false has.
NoStructureInResult ==
  /\ Val(q_result).http_status # NO_STATUS
  /\ IsNone(Val(q_result).plddts)
  /\ IsNone(Val(q_result).cif_text)
  /\ Len(Calls(net_log)) = 1

\* C17 (as claimed): at most two fetches, gated as above, and with get_cif
\* false the result has status and sequence populated and no scores or
\* structure text.  A call whose metadata fetch ends non-200, or whose
\* payload has no `sequence`, returns no sequence.
C17_NoStructureHasSequence ==
  /\ C17_FetchesGated
  /\ (q_pc = "ret" /\ ~q_args.get_cif) =>
       /\ NoStructureInResult
       /\ ~IsNone(Val(q_result).sequence)

\* C17 (amended): at most two fetches, gated as above, and with get_cif
\* false the result has its status populated and no scores or structure
\* text; its sequence is the payload's `sequence` when the metadata status
\* is 200 and the payload is an object, and absent otherwise.
C17_NoStructureSequenceOfPayload ==
  /\ C17_FetchesGated
  /\ (q_pc = "ret" /\ ~q_args.get_cif) =>
       LET res == Val(q_result) IN
       /\ NoStructureInResult
       /\ res.http_status = GetsOf(net_log, "prediction")[
                              Len(GetsOf(net_log, "prediction"))].n
       /\ res.sequence =
            (IF res.http_status = HTTP_OK /\ ~IsNone(res.alpha_fold_data)
               THEN Val(res.alpha_fold_data).sequence
               ELSE None)

\* A call with get_cif false returned a sequence from a payload that names
\* a structure file, having fetched the metadata only.
C17_Witness ==
  /\ q_pc = "ret"
  /\ ~q_args.get_cif
  /\ Val(q_result).http_status = HTTP_OK
  /\ ~IsNone(Val(q_result).sequence)
  /\ ~IsNone(Val(Val(q_result).alpha_fold_data).cifUrl)
  /\ Len(Calls(net_log)) = 1

\* --------------------------------------------------------------------- C18
ParseErrors ==
  {Some("IndexError"), Some("ValueError"), Some("ResidueNumberError"),
   Some("PlddtRangeError")}
LastOf(s) == s[Len(s)]

\* The structure file was fetched with status 200.
StructureFetchedOk ==
  /\ GetsOf(net_log, "cif") # <<>>
  /\ LastOf(GetsOf(net_log, "cif")).n = HTTP_OK

\* The second half of C18: a call that returns without structure text
\* carries the status of the metadata fetch and no scores, and when the
\* structure-file fetch ended non-200 it carries sequence and metadata.
C18_ContainedOutcomes ==
  (q_pc = "ret" /\ ~StructureFetchedOk) =>
    LET res == Val(q_result) IN
    /\ res.http_status = LastOf(GetsOf(net_log, "prediction")).n
    /\ IsNone(res.plddts)
    /\ IsNone(res.cif_text)
    /\ GetsOf(net_log, "cif") # <<>> =>
         /\ ~IsNone(res.sequence)
         /\ ~IsNone(res.alpha_fold_data)

\* C18 (as claimed): query_alphafold raises only when the structure file
\* was fetched with status 200 and its parse failed or its score count
\* differs from the sequence length; every other outcome is a returned
\* result as in C18_ContainedOutcomes.  A GET that raises (connection
\* fault, timeout) leaves get_with_retries and query_alphafold as an
\* exception.
C18_RaisesOnlyOnBadStructure ==
  /\ C18_ContainedOutcomes
  /\ q_pc = "raised" =>
       /\ StructureFetchedOk
       /\ q_exc \in ParseErrors \cup {Some("LengthMismatch")}

\* With the GETs that raise set aside, the claim holds: the only other
\* exceptions are those of the parser and of the length comparison.
C18_RaisesOnFaultOrBadStructure ==
  (q_pc = "raised" /\ q_exc # Some("ConnectionError")) =>
    /\ StructureFetchedOk
    /\ q_exc \in ParseErrors \cup {Some("LengthMismatch")}

\* --------------------------------------------------------------------- C19
\* C19 (as claimed): within one call of query_alphafold both fetches are
\* given the caller's `retries`, every GET uses the caller's timeout and
\* every sleep lasts the caller's backoff_time.  The metadata fetch is
\* given the literal 5 as backoff_time (line 85).
C19_CallerBackoffAndTimeout ==
  InQuery =>
    \A k \in 1..Len(net_log) :
      /\ net_log[k].timeout = q_args.timeout
      /\ net_log[k].op = "call" => net_log[k].n = q_args.retries
      /\ net_log[k].op = "sleep" => net_log[k].n = q_args.backoff_time

\* What holds of the code: the structure-file fetch sleeps the caller's
\* backoff_time, the metadata fetch always 5 seconds.
C19_MetadataBackoffFixed ==
  InQuery =>
    \A k \in 1..Len(net_log) :
      /\ net_log[k].timeout = q_args.timeout
      /\ net_log[k].op = "call" => net_log[k].n = q_args.retries
      /\ net_log[k].op = "sleep" =>
           net_log[k].n = (IF net_log[k].url[1] = "cif"
                             THEN q_args.backoff_time ELSE META_BACKOFF)

\* --------------------------------------------------------------------- C20
\* C20: in every result query_alphafold returns, the scores are present
\* exactly when the structure text is, both only with metadata present and
\* status 200, and the status is that of the last metadata GET, never the
\* sentinel -1.
C20_ResultConsistent ==
  q_pc = "ret" =>
    LET res == Val(q_result) IN
    /\ IsNone(res.plddts) <=> IsNone(res.cif_text)
    /\ ~IsNone(res.plddts) =>
         /\ ~IsNone(res.alpha_fold_data)
         /\ res.http_status = HTTP_OK
    /\ res.http_status # NO_STATUS
    /\ res.http_status = LastOf(GetsOf(net_log, "prediction")).n

\* A call returned a result with scores and structure text.
C20_Witness ==
  /\ q_pc = "ret"
  /\ ~IsNone(Val(q_result).plddts)
  /\ ~IsNone(Val(q_result).cif_text)
  /\ Val(q_result).http_status = HTTP_OK

\* --------------------------------------------------------------------- C11
InBulk == pc \in {"bulk", "bulk_query", "bulk_stopped", "bulk_end",
                  "bulk_raised"}

\* C11: for a consumer of query_alphafold_bulk, the accessions given to
\* query_alphafold so far are the first elements of the input list, in
\* order and one call per element (duplicates included); the results
\* yielded so far are for those accessions in the same order; a query runs
\* only between a request for an element and its yield, so that while the
\* generator is suspended, and when the consumer has stopped after k
\* elements, exactly k queries were made; and the exhausted generator has
\* yielded one result per element of the list.
C11_LazyInOrder ==
  InBulk =>
    /\ Len(queried) <= Len(accession_list)
    /\ queried = SubSeq(accession_list, 1, Len(queried))
    /\ \A k \in 1..Len(consumed) : consumed[k][1] = accession_list[k]
    /\ pc \in {"bulk", "bulk_stopped", "bulk_end"} =>
         /\ Len(queried) = Len(consumed)
         /\ q_pc = "idle" /\ f_pc = "idle"
    /\ pc \in {"bulk_query", "bulk_raised"} =>
         Len(queried) = Len(consumed) + 1
    /\ pc = "bulk_end" => Len(consumed) = Len(accession_list)

\* Nothing is queried when the generator is created.
C11_NothingAtCreation ==
  [][(pc \in BulkOver /\ pc' = "bulk") =>
       /\ queried' = <<>>
       /\ q_pc' = q_pc /\ f_pc' = f_pc /\ net_log' = net_log]_vars

\* A consumer stopped after one element of a list of two equal accessions:
\* one query was made.
C11_Witness ==
  /\ pc = "bulk_stopped"
  /\ accession_list = <<"A", "A">>
  /\ Len(consumed) = 1
  /\ queried = <<"A">>

\* The exhausted generator queried a twice-listed accession twice.
C11_WitnessDuplicates ==
  /\ pc = "bulk_end"
  /\ accession_list = <<"A", "A">>
  /\ queried = <<"A", "A">>
  /\ Len(consumed) = 2

\* --------------------------------------------------------------------- C12
\* The ATOM records of a text, and what the claims say of them.
Records(text) == SelectSeq(text, LAMBDA l : Len(l) > 0 /\ l[1] = "ATOM")
Readable(l) ==
  /\ Len(l) >= PLDDT_COL + 1
  /\ l[RESIDUE_COL + 1] \in IntTokens
  /\ l[PLDDT_COL + 1] \in FloatTokens
IndexOf(l) == IntOf(l[RESIDUE_COL + 1])
ValueOf(l) == FloatOf(l[PLDDT_COL + 1])
InRange(v) == v # NAN /\ PLDDT_MIN <= v /\ v <= PLDDT_MAX
ValidRecord(l) == Readable(l) /\ IndexOf(l) >= 1 /\ InRange(ValueOf(l))
AllValid(text) ==
  \A k \in 1..Len(Records(text)) : ValidRecord(Records(text)[k])

\* The values of the records that begin a maximal run of equal indices.
RunStarts(recs) ==
  {k \in 1..Len(recs) : k = 1 \/ IndexOf(recs[k]) # IndexOf(recs[k - 1])}
FirstOfRuns(recs) ==
  LET starts == SelectSeq([k \in 1..Len(recs) |-> k],
                          LAMBDA k : k \in RunStarts(recs))
  IN [j \in 1..Len(starts) |-> ValueOf(recs[starts[j]])]

Parsed == ~IsNone(p_text) /\ ~IsNone(p_out)

\* C12: when every ATOM record of the text is valid, parse_plddt_from_cif
\* returns the value of the first record of each maximal run of consecutive
\* ATOM records with equal residue index, in input order; the lines that
\* are no ATOM records change nothing.
C12_FirstOfEachRun ==
  (Parsed /\ AllValid(Val(p_text))) =>
    /\ IsNone(Val(p_out).exc)
    /\ Val(p_out).plddt_list = FirstOfRuns(Records(Val(p_text)))

\* Two records of residue 1 and one of residue 2: two values.
C12_Witness ==
  /\ Parsed
  /\ Val(p_text) = <<AtomLine("1", "100.0"), AtomLine("1", "0.0"),
                     AtomLine("2", "0.0")>>
  /\ Val(p_out) = [exc |-> None, plddt_list |-> <<1000, 0>>]

\* A residue index that comes back after another one gives a second value.
C12_WitnessReappears ==
  /\ Parsed
  /\ Val(p_text) = <<AtomLine("1", "100.0"), AtomLine("2", "0.0"),
                     AtomLine("1", "0.0")>>
  /\ Len(Val(p_out).plddt_list) = 3

\* --------------------------------------------------------------------- C13
\* C13 (as claimed): parse_plddt_from_cif raises whenever some ATOM record
\* has a residue index below 1 or a value outside [0.0, 100.0], also when
\* the record repeats the index of the one before, and returns when every
\* record has an index of at least 1 and a value in [0.0, 100.0].  A value
\* of nan is outside the interval, yet neither comparison of line 51 is true
\* of it, and it is appended.
C13_RaisesOnInvalid ==
  Parsed =>
    /\ (\E k \in 1..Len(Records(Val(p_text))) :
          LET l == Records(Val(p_text))[k] IN
          Readable(l) /\ (IndexOf(l) < 1 \/ ~InRange(ValueOf(l))))
         => ~IsNone(Val(p_out).exc)
    /\ AllValid(Val(p_text)) => IsNone(Val(p_out).exc)

\* What holds of the code: it raises whenever some ATOM record has an index
\* below 1 or a value that compares below 0.0 or above 100.0.
C13_RaisesOnComparable ==
  Parsed =>
    /\ (\E k \in 1..Len(Records(Val(p_text))) :
          LET l == Records(Val(p_text))[k] IN
          /\ Readable(l)
          /\ \/ IndexOf(l) < 1
             \/ FloatLt(ValueOf(l), PLDDT_MIN)
             \/ FloatLt(PLDDT_MAX, ValueOf(l)))
         => ~IsNone(Val(p_out).exc)
    /\ AllValid(Val(p_text)) => IsNone(Val(p_out).exc)

\* --------------------------------------------------------------------- C14
\* The accessions of the consumed results with status 200, in order.
SucceededSeq(results) ==
  LET ok == SelectSeq(results, LAMBDA c : c[2] = HTTP_OK)
  IN [k \in 1..Len(ok) |-> ok[k][1]]
IdsOf(rows) == [k \in 1..Len(rows) |-> rows[k].uniprot_id]

\* C14: the step that ends a run of main normally writes to the primary
\* file the rows loaded at the start of the run, unchanged and in order,
\* followed by one row for each consumed result with status 200, in the
\* order of the results; no other step writes the primary file; and every
\* step leaves the rows the primary file had as a prefix of those it has.
C14_Step ==
  /\ (pc # "done" /\ pc' = "done") =>
       LET rows == StoreRows(output_file') IN
       /\ ~IsNone(output_file')
       /\ IsPrefix(loaded, rows)
       /\ loaded = StoreRows(output_file)
       /\ IdsOf(SubSeq(rows, Len(loaded) + 1, Len(rows)))
            = SucceededSeq(consumed)
       /\ Range(SucceededSeq(consumed)) \subseteq Range(queried)
  /\ output_file' # output_file => (pc # "done" /\ pc' = "done")
  /\ IsPrefix(StoreRows(output_file), StoreRows(output_file'))
C14_StoreOnlyGrows == [][C14_Step]_vars

\* The second of two runs loaded the one row of the first and wrote it
\* followed by a row for the accession the first run had got no 200 for.
C14_Witness ==
  /\ rerun
  /\ pc = "done"
  /\ Len(loaded) = 1
  /\ loaded[1].uniprot_id = "A"
  /\ consumed = <<<<"B", HTTP_OK>>>>
  /\ IsPrefix(loaded, StoreRows(output_file))
  /\ IdsOf(StoreRows(output_file)) = <<"A", "B">>

====
